---- MODULE Spec2Model ----
(***************************************************************************)
(* FastRenamer: filename sanitization and conflict resolution              *)
(* (src/name_sanitizer.py), content extraction (src/content_extractors.py) *)
(* and the rename loop of the application (src/renamer_app.py).            *)
(*                                                                         *)
(* A filename is a sequence of Unicode code points.  The operations of the *)
(* sanitizer and of the extractors are functions of their arguments and of *)
(* the files they read; each specification below draws the arguments in    *)
(* its initial states and has actions that apply the operation.            *)
(***************************************************************************)
EXTENDS Integers, Sequences, FiniteSets, TLC

VARIABLES
  pc,    \* "call" before the operation has run, "ret" after it
  args,  \* the arguments of the call, the directory listing among them
  ret,   \* the value returned
  obs,   \* what the call did on the way: existence checks, fallback taken
  used_names,  \* batch_sanitize: the final names given so far in the batch
  disk   \* rename_files: the names of the files in the directory of the app

vars == <<pc, args, ret, obs, used_names, disk>>

(***************************************************************************)
(* Bounds of the model.                                                    *)
(***************************************************************************)
\* longest input name given to sanitize_filename
MaxLen == 4
\* largest small max_length tried (the default 255 is tried as well)
MaxCap == 3
\* largest max_attempts given to resolve_filename_conflicts
MaxAttempts == 2
\* longest input name given to FilenameSanitizer.sanitize
FacLen == 3
\* largest number of inputs given to batch_sanitize
BatchLen == 3
\* largest number of bytes in a text file
MaxBytes == 2
\* largest number of pages in a PDF file
MaxPages == 2

(***************************************************************************)
(* Code points.                                                            *)
(***************************************************************************)
chTab == 9
chSpace == 32
chLParen == 40
chRParen == 41
chDot == 46
chSlash == 47
chZero == 48
chLess == 60
chC == 67
chN == 78
chO == 79
chUnderscore == 95
chLowerC == 99
\* U+0338 COMBINING LONG SOLIDUS OVERLAY
chOverlay == 824
\* U+226E NOT LESS-THAN, canonical decomposition <003C, 0338>
chNotLess == 8814

\* the characters of the names the model tries
Alphabet == {chC, chO, chN, chLowerC, chDot, chSpace, chLess, chSlash, chNotLess}

(***************************************************************************)
(* Strings.                                                                *)
(***************************************************************************)
\* all sequences over S of length at most n
RECURSIVE StringsUpTo(_, _)
StringsUpTo(S, n) ==
  IF n = 0 THEN {<<>>}
  ELSE LET shorter == StringsUpTo(S, n - 1)
       IN shorter \cup {Append(s, c) : s \in {t \in shorter : Len(t) = n - 1}, c \in S}

\* s[:n] for n >= 0
Take(s, n) == SubSeq(s, 1, IF n < Len(s) THEN n ELSE Len(s))

\* s[i:] for a 1-based i
From(s, i) == SubSeq(s, i, Len(s))

\* str.rfind(c) as a 1-based index, 0 when c does not occur
RECURSIVE RFindFrom(_, _, _)
RFindFrom(s, c, i) ==
  IF i = 0 THEN 0
  ELSE IF s[i] = c THEN i
  ELSE RFindFrom(s, c, i - 1)

RFind(s, c) == RFindFrom(s, c, Len(s))

\* the concatenation of the strings of a sequence of strings
RECURSIVE Flatten(_)
Flatten(ss) == IF ss = <<>> THEN <<>> ELSE Head(ss) \o Flatten(Tail(ss))

\* s with every character c replaced by f(c)
MapChars(s, f(_)) == [i \in 1..Len(s) |-> f(s[i])]

\* str.strip(chars)
RECURSIVE LStrip(_, _)
LStrip(s, chars) ==
  IF s # <<>> /\ Head(s) \in chars THEN LStrip(Tail(s), chars) ELSE s

RECURSIVE RStrip(_, _)
RStrip(s, chars) ==
  IF s # <<>> /\ s[Len(s)] \in chars THEN RStrip(SubSeq(s, 1, Len(s) - 1), chars) ELSE s

Strip(s, chars) == RStrip(LStrip(s, chars), chars)

\* str.upper() / str.lower() on the letters of the model
IsLower(c) == c \in 97..122
IsUpper(c) == c \in 65..90
UpperChar(c) == IF IsLower(c) THEN c - 32 ELSE c
LowerChar(c) == IF IsUpper(c) THEN c + 32 ELSE c
Upper(s) == MapChars(s, UpperChar)
Lower(s) == MapChars(s, LowerChar)

(***************************************************************************)
(* unicodedata: NFKD decomposition and combining class of the model's      *)
(* characters.                                                             *)
(***************************************************************************)
Decompose(c) == IF c = chNotLess THEN <<chLess, chOverlay>> ELSE <<c>>

NFKD(s) == Flatten([i \in 1..Len(s) |-> Decompose(s[i])])

Combining(c) == IF c = chOverlay THEN 1 ELSE 0

StripCombining(s) == SelectSeq(s, LAMBDA c : Combining(c) = 0)

(***************************************************************************)
(* pathlib.PurePath: name, stem, suffix.                                   *)
(***************************************************************************)
\* the path components: the pieces between separators, without the empty
\* ones and the "." ones
RECURSIVE SplitFrom(_, _, _)
SplitFrom(s, i, cur) ==
  IF i > Len(s) THEN <<cur>>
  ELSE IF s[i] = chSlash THEN <<cur>> \o SplitFrom(s, i + 1, <<>>)
  ELSE SplitFrom(s, i + 1, Append(cur, s[i]))

PathParts(s) == SelectSeq(SplitFrom(s, 1, <<>>), LAMBDA p : p # <<>> /\ p # <<chDot>>)

PathName(s) ==
  LET parts == PathParts(s)
  IN IF parts = <<>> THEN <<>> ELSE parts[Len(parts)]

PathSuffix(s) ==
  LET name == PathName(s)
      i == RFind(name, chDot)
  IN IF 1 < i /\ i < Len(name) THEN From(name, i) ELSE <<>>

PathStem(s) ==
  LET name == PathName(s)
      i == RFind(name, chDot)
  IN IF 1 < i /\ i < Len(name) THEN SubSeq(name, 1, i - 1) ELSE name

(***************************************************************************)
(* sanitize_filename                                                       *)
(***************************************************************************)
unnamed == <<117, 110, 110, 97, 109, 101, 100>>

\* < > : " | ? * \ , the control characters and DEL
invalid_chars == {60, 62, 58, 34, 124, 63, 42, 92} \cup (0..31) \cup {127}

\* a replacement that knows the control characters only
ReplaceInvalidControlOnly(s) ==
  MapChars(s, LAMBDA c : IF c \in (0..31) \cup {127} THEN chUnderscore ELSE c)

ReplaceInvalid(s) == MapChars(s, LAMBDA c : IF c \in invalid_chars THEN chUnderscore ELSE c)

COMn == {<<67, 79, 77, d>> : d \in 49..57}
LPTn == {<<76, 80, 84, d>> : d \in 49..57}

\* CON PRN AUX NUL COM1-9 LPT1-9
reserved_names ==
  {<<67, 79, 78>>, <<80, 82, 78>>, <<65, 85, 88>>, <<78, 85, 76>>} \cup COMn \cup LPTn

PrefixReserved(s) ==
  IF Upper(PathStem(s)) \in reserved_names THEN <<chUnderscore>> \o s ELSE s

ReplaceSpaces(s) == MapChars(s, LAMBDA c : IF c = chSpace THEN chUnderscore ELSE c)

StripDotsSpaces(s) == Strip(s, {chDot, chSpace})

\* the truncation at the end of sanitize_filename, for len(filename) > max_length
SanitizeTruncate(filename, max_length) ==
  LET ext == PathSuffix(filename)
      stem == PathStem(filename)
      available_length == max_length - Len(ext)
  IN IF available_length > 0
     THEN Take(stem, available_length) \o ext
     ELSE Take(filename, max_length)

sanitize_filename(filename, normalize_unicode, replace_spaces, max_length) ==
  IF filename = <<>> THEN unnamed
  ELSE
    LET f1 == IF normalize_unicode THEN StripCombining(NFKD(filename)) ELSE filename
        f2 == ReplaceInvalid(f1)
        f3 == PrefixReserved(f2)
        f4 == IF replace_spaces THEN ReplaceSpaces(f3) ELSE f3
        f5 == StripDotsSpaces(f4)
        f6 == IF f5 = <<>> THEN unnamed ELSE f5
    IN IF Len(f6) > max_length THEN SanitizeTruncate(f6, max_length) ELSE f6

(***************************************************************************)
(* resolve_filename_conflicts                                              *)
(***************************************************************************)
\* str(i) for i >= 0
RECURSIVE Str(_)
Str(i) == IF i < 10 THEN <<chZero + i>> ELSE Str(i \div 10) \o <<chZero + (i % 10)>>

\* a suffix format with at most one "{}" field is the text before the field,
\* the text after it and whether the field is there; str.format(i)
Format(suffix_format, i) ==
  suffix_format.before \o (IF suffix_format.field THEN Str(i) ELSE <<>>) \o suffix_format.after

\* a directory is whether it exists and the names of its entries;
\* (directory / name).exists(): a name without components is the directory
\* itself, ".." its parent, and no entry has entries of its own
PathExists(directory, name) ==
  LET parts == PathParts(name)
  IN /\ directory.exists
     /\ \/ parts = <<>>
        \/ /\ Len(parts) = 1
           /\ name[1] # chSlash
           /\ parts[1] \in directory.names \cup {<<chDot, chDot>>}

\* an integer in a field of the given width, zero-padded
RECURSIVE ZeroPad(_, _)
ZeroPad(n, width) ==
  IF width = 0 THEN <<>> ELSE ZeroPad(n \div 10, width - 1) \o <<chZero + (n % 10)>>

\* the padding forgotten
NoPadStrftime(now) ==
  Str(now.year) \o Str(now.month) \o Str(now.day) \o <<chUnderscore>>
    \o Str(now.hour) \o Str(now.minute) \o Str(now.second)

\* datetime.strftime("%Y%m%d_%H%M%S")
Strftime(now) ==
  ZeroPad(now.year, 4) \o ZeroPad(now.month, 2) \o ZeroPad(now.day, 2) \o <<chUnderscore>>
    \o ZeroPad(now.hour, 2) \o ZeroPad(now.minute, 2) \o ZeroPad(now.second, 2)

\* the numbering started at 0
NumberedNameFromZero(stem, suffix, suffix_format, i) ==
  stem \o Format(suffix_format, i - 1) \o suffix

NumberedName(stem, suffix, suffix_format, i) ==
  stem \o Format(suffix_format, i) \o suffix

\* the existence check of the loop left out
IsFreeUnchecked(directory, new_filename) == TRUE

IsFree(directory, new_filename) == ~PathExists(directory, new_filename)

\* the loop over the numbered variants: the first attempt in
\* 1..max_attempts whose name does not exist and the number of existence
\* checks made up to it, or all max_attempts checks made in vain
TryNumbered(stem, suffix, directory, suffix_format, max_attempts) ==
  LET Free(i) == IsFree(directory, NumberedName(stem, suffix, suffix_format, i))
  IN IF \E i \in 1..max_attempts : Free(i)
     THEN LET first == CHOOSE i \in 1..max_attempts :
                         Free(i) /\ \A j \in 1..(i - 1) : ~Free(j)
          IN [found |-> TRUE, name |-> NumberedName(stem, suffix, suffix_format, first),
              probes |-> first]
     ELSE [found |-> FALSE, name |-> <<>>, probes |-> max_attempts]

\* resolve_filename_conflicts from line 99 on, with its locals stem and
\* suffix: the name returned, the number of existence checks on numbered
\* variants, whether the timestamp was used
ResolveNamed(base_filename, stem, suffix, directory, suffix_format, max_attempts, now) ==
  IF ~PathExists(directory, base_filename)
  THEN [name |-> base_filename, probes |-> 0, exhausted |-> FALSE]
  ELSE LET try == TryNumbered(stem, suffix, directory, suffix_format, max_attempts)
       IN IF try.found
          THEN [name |-> try.name, probes |-> try.probes, exhausted |-> FALSE]
          ELSE [name |-> stem \o <<chUnderscore>> \o Strftime(now) \o suffix,
                probes |-> try.probes, exhausted |-> TRUE]

\* the run of resolve_filename_conflicts (the set constructor fixes the
\* values of base_filename, stem and suffix before the loop reads them)
ResolveRun(base_filename, directory, suffix_format, max_attempts, now) ==
  IF ~directory.exists
  THEN [name |-> base_filename, probes |-> 0, exhausted |-> FALSE]
  ELSE CHOOSE run \in
         {ResolveNamed(b, stem, suffix, directory, suffix_format, max_attempts, now) :
            b \in {base_filename}, stem \in {PathStem(base_filename)},
            suffix \in {PathSuffix(base_filename)}} : TRUE

resolve_filename_conflicts(base_filename, directory, suffix_format, max_attempts, now) ==
  ResolveRun(base_filename, directory, suffix_format, max_attempts, now).name

(***************************************************************************)
(* truncate_filename, add_prefix_suffix, normalize_filename_case           *)
(***************************************************************************)
\* the extension kept in full even when it alone reaches max_length
TruncateKeepingAnyExtension(filename, max_length, preserve_extension) ==
  IF Len(filename) <= max_length THEN filename
  ELSE IF ~preserve_extension THEN Take(filename, max_length)
  ELSE Take(PathStem(filename), max_length - Len(PathSuffix(filename)))
         \o PathSuffix(filename)

truncate_filename(filename, max_length, preserve_extension) ==
  IF Len(filename) <= max_length THEN filename
  ELSE IF ~preserve_extension THEN Take(filename, max_length)
  ELSE
    LET ext == PathSuffix(filename)
        stem == PathStem(filename)
        available_length == max_length - Len(ext)
    IN IF Len(ext) >= max_length THEN Take(filename, max_length)
       ELSE IF available_length > 0 THEN Take(stem, available_length) \o ext
       ELSE Take(ext, max_length)

add_prefix_suffix(filename, prefix, suffix) ==
  IF filename = <<>> THEN filename
  ELSE prefix \o PathStem(filename) \o suffix \o PathSuffix(filename)

\* only the first character treated as the start of a word
TitleFirstWordOnly(s) ==
  [i \in 1..Len(s) |-> IF i > 1 THEN LowerChar(s[i]) ELSE UpperChar(s[i])]

\* str.title(): a letter that follows a letter is lower-cased, any other
\* letter is upper-cased
Title(s) ==
  [i \in 1..Len(s) |->
     IF i > 1 /\ (IsLower(s[i - 1]) \/ IsUpper(s[i - 1]))
     THEN LowerChar(s[i]) ELSE UpperChar(s[i])]

\* str.capitalize()
Capitalize(s) ==
  [i \in 1..Len(s) |-> IF i = 1 THEN UpperChar(s[i]) ELSE LowerChar(s[i])]

normalize_filename_case(filename, case_style) ==
  IF filename = <<>> THEN filename
  ELSE LET stem == PathStem(filename)
           ext == Lower(PathSuffix(filename))
       IN (CASE case_style = "lower" -> Lower(stem)
            [] case_style = "upper" -> Upper(stem)
            [] case_style = "title" -> Title(stem)
            [] case_style = "sentence" -> Capitalize(stem)
            [] OTHER -> stem) \o ext

(***************************************************************************)
(* FilenameSanitizer                                                       *)
(***************************************************************************)
\* the default max_attempts of resolve_filename_conflicts
DefaultMaxAttempts == 1000

\* directory=None
NoDirectory == [some |-> FALSE, exists |-> FALSE, names |-> {}]

\* the run of FilenameSanitizer.sanitize: self is the configuration
SanitizeRun(self, filename, directory, prefix, suffix, now) ==
  IF filename = <<>>
  THEN [name |-> unnamed, probes |-> 0, exhausted |-> FALSE]
  ELSE
    LET r1 == sanitize_filename(filename, self.normalize_unicode, self.replace_spaces,
                                self.max_length)
        r2 == IF prefix # <<>> \/ suffix # <<>>
              THEN truncate_filename(add_prefix_suffix(r1, prefix, suffix),
                                     self.max_length, TRUE)
              ELSE r1
        r3 == IF self.case_style # "None"
              THEN normalize_filename_case(r2, self.case_style)
              ELSE r2
    IN IF self.conflict_resolution /\ directory.some
       THEN ResolveRun(r3, directory, self.conflict_suffix_format, DefaultMaxAttempts, now)
       ELSE [name |-> r3, probes |-> 0, exhausted |-> FALSE]

sanitize(self, filename, directory, prefix, suffix, now) ==
  SanitizeRun(self, filename, directory, prefix, suffix, now).name

\* the bound on the counter of the in-batch renumbering
BatchAttemptLimit == 1000

\* the renumbering left out
RenumberNever(sanitized, stem, ext, used, suffix_format) == sanitized

\* the while loop of batch_sanitize: the counter runs from 1 and the name
\* becomes stem + format(counter) + ext until that name is not in used
\* or the counter has passed BatchAttemptLimit
Renumber(sanitized, stem, ext, used, suffix_format) ==
  LET Numbered(counter) == stem \o Format(suffix_format, counter) \o ext
      Unused(counter) == Numbered(counter) \notin used
  IN IF sanitized \notin used THEN sanitized
     ELSE IF \E counter \in 1..BatchAttemptLimit : Unused(counter)
     THEN Numbered(CHOOSE counter \in 1..BatchAttemptLimit :
                     Unused(counter) /\ \A c \in 1..(counter - 1) : ~Unused(c))
     ELSE Numbered(BatchAttemptLimit)

\* the body of the for loop of batch_sanitize: the final name of one input,
\* given the names used so far in the batch (the set constructor fixes the
\* value of sanitized before the loop reads it)
BatchFinal(self, original, directory, prefix, suffix, now, used) ==
  CHOOSE final \in
    {IF sanitized \in used
     THEN Renumber(sanitized, PathStem(sanitized), PathSuffix(sanitized), used,
                   self.conflict_suffix_format)
     ELSE sanitized :
       sanitized \in {sanitize(self, original, directory, prefix, suffix, now)}} : TRUE

\* nothing observed
NoObs == [probes |-> 0, exhausted |-> FALSE]

(***************************************************************************)
(* SpecSan: one call of sanitize_filename.                                 *)
(***************************************************************************)
\* the default max_length of sanitize_filename
DefaultMaxLength == 255

SanNames == StringsUpTo(Alphabet, MaxLen)
SanCaps == (0..MaxCap) \cup {DefaultMaxLength}

InitSan ==
  /\ pc = "call"
  /\ args \in [filename : SanNames, normalize_unicode : BOOLEAN,
               replace_spaces : BOOLEAN, max_length : SanCaps]
  /\ ret = <<>>
  /\ obs = NoObs
  /\ used_names = {}
  /\ disk = {}

CallSanitizeFilename ==
  /\ pc = "call"
  /\ pc' = "ret"
  /\ ret' = sanitize_filename(args.filename, args.normalize_unicode,
                              args.replace_spaces, args.max_length)
  /\ UNCHANGED <<args, obs, used_names, disk>>

NextSan == CallSanitizeFilename

SpecSan == InitSan /\ [][NextSan]_vars

(***************************************************************************)
(* Properties of sanitize_filename.                                        *)
(***************************************************************************)
Chars(s) == {s[i] : i \in 1..Len(s)}

\* the characters a returned name must not contain
ForbiddenChars == {60, 62, 58, 34, 124, 63, 42, 92} \cup (0..31) \cup {127}

\* the name with its final extension removed ("a.txt" -> "a")
WithoutExtension(s) ==
  LET i == RFind(s, chDot)
  IN IF 1 < i /\ i < Len(s) THEN SubSeq(s, 1, i - 1) ELSE s

IsBlank(s) == Chars(s) \subseteq {chDot, chSpace}

\* C2: the name returned by sanitize_filename contains none of the forbidden
\* characters (< > : " | ? * backslash, control characters, DEL), whatever
\* the input, the flags and max_length.
C2_NoForbiddenChar ==
  pc = "ret" => Chars(ret) \cap ForbiddenChars = {}

\* a name holding both a forbidden character and one that decomposes into a
\* forbidden character has been sanitized
C2_Witness ==
  /\ pc = "ret"
  /\ args.normalize_unicode
  /\ {chLess, chNotLess} \subseteq Chars(args.filename)
  /\ ret = <<chUnderscore, chUnderscore>>

\* C3: the name returned by sanitize_filename is never longer than
\* max_length, also when the "unnamed" fallback was applied.
C3_WithinMaxLength ==
  pc = "ret" => Len(ret) <= args.max_length

\* C4: the name returned by sanitize_filename, its extension ignored, is
\* never exactly a reserved device name, also after the stripping of dots
\* and spaces, the space replacement and the truncation.
C4_NeverReserved ==
  pc = "ret" => WithoutExtension(ret) \notin reserved_names

\* C5: the name returned by sanitize_filename is never empty and never made
\* of dots and spaces only (stated for max_length >= 1: a max_length of 0
\* leaves room for no character at all).
C5_NeverBlank ==
  (pc = "ret" /\ args.max_length >= 1) => ~IsBlank(ret)

(***************************************************************************)
(* SpecRes: one call of resolve_filename_conflicts.                        *)
(***************************************************************************)
\* "a.txt", "a", ".a", "a(1).txt"
ResCandidates ==
  {<<97, 46, 116, 120, 116>>, <<97>>, <<46, 97>>, <<97, 40, 49, 41, 46, 116, 120, 116>>}

\* the entries a directory of the model may hold:
\* "a.txt" "a(1).txt" "a(2).txt" "a_1.txt" "a" "a(1)" ".a" ".a(1)"
\* "a_20240102_030405.txt"
ResPool ==
  {<<97, 46, 116, 120, 116>>,
   <<97, 40, 49, 41, 46, 116, 120, 116>>,
   <<97, 40, 50, 41, 46, 116, 120, 116>>,
   <<97, 95, 49, 46, 116, 120, 116>>,
   <<97>>,
   <<97, 40, 49, 41>>,
   <<46, 97>>,
   <<46, 97, 40, 49, 41>>,
   <<97, 95, 50, 48, 50, 52, 48, 49, 48, 50, 95, 48, 51, 48, 52, 48, 53, 46, 116, 120, 116>>}

\* "({})", "_{}" and the format without a field ""
ParenFormat == [before |-> <<chLParen>>, field |-> TRUE, after |-> <<chRParen>>]
UnderscoreFormat == [before |-> <<chUnderscore>>, field |-> TRUE, after |-> <<>>]
EmptyFormat == [before |-> <<>>, field |-> FALSE, after |-> <<>>]
SuffixFormats == {ParenFormat, UnderscoreFormat, EmptyFormat}

\* the instants datetime.now() may return
Nows ==
  {[year |-> 2024, month |-> 1, day |-> 2, hour |-> 3, minute |-> 4, second |-> 5],
   [year |-> 2026, month |-> 11, day |-> 1, hour |-> 19, minute |-> 46, second |-> 15]}

\* a directory that does not exist has no entries
Directories(pool) ==
  {[exists |-> FALSE, names |-> {}]} \cup [exists : {TRUE}, names : SUBSET pool]

InitRes ==
  /\ pc = "call"
  /\ args \in [base_filename : ResCandidates, directory : Directories(ResPool),
               suffix_format : SuffixFormats, max_attempts : 0..MaxAttempts, now : Nows]
  /\ ret = <<>>
  /\ obs = NoObs
  /\ used_names = {}
  /\ disk = {}

CallResolve ==
  /\ pc = "call"
  /\ pc' = "ret"
  /\ \E run \in {ResolveRun(args.base_filename, args.directory, args.suffix_format,
                             args.max_attempts, args.now)} :
       /\ ret' = run.name
       /\ obs' = [probes |-> run.probes, exhausted |-> run.exhausted]
  /\ UNCHANGED <<args, used_names, disk>>

NextRes == CallResolve

SpecRes == InitRes /\ [][NextRes]_vars

(***************************************************************************)
(* Properties of resolve_filename_conflicts.                               *)
(***************************************************************************)
\* the final extension of a name ("a.txt" -> ".txt")
ExtensionOf(s) == From(s, Len(WithoutExtension(s)) + 1)

\* stem + suffix_template(i) + extension of the candidate of the call
Form(i) ==
  WithoutExtension(args.base_filename) \o Format(args.suffix_format, i)
    \o ExtensionOf(args.base_filename)

CandidateTaken ==
  args.directory.exists /\ args.base_filename \in args.directory.names

AllFormsTaken ==
  CandidateTaken /\ \A i \in 1..args.max_attempts : Form(i) \in args.directory.names

\* the number a string of decimal digits denotes
RECURSIVE Num(_)
Num(s) == IF s = <<>> THEN 0 ELSE 10 * Num(SubSeq(s, 1, Len(s) - 1)) + (s[Len(s)] - chZero)

\* ts is the instant now written as YYYYMMDD_HHMMSS
IsTimestampOf(ts, now) ==
  /\ Len(ts) = 15
  /\ ts[9] = chUnderscore
  /\ \A k \in (1..15) \ {9} : ts[k] \in 48..57
  /\ Num(SubSeq(ts, 1, 4)) = now.year
  /\ Num(SubSeq(ts, 5, 6)) = now.month
  /\ Num(SubSeq(ts, 7, 8)) = now.day
  /\ Num(SubSeq(ts, 10, 11)) = now.hour
  /\ Num(SubSeq(ts, 12, 13)) = now.minute
  /\ Num(SubSeq(ts, 14, 15)) = now.second

\* name is stem + "_" + timestamp + ext
IsTimestamped(name, stem, ext, now) ==
  /\ Len(name) = Len(stem) + 16 + Len(ext)
  /\ SubSeq(name, 1, Len(stem)) = stem
  /\ name[Len(stem) + 1] = chUnderscore
  /\ IsTimestampOf(SubSeq(name, Len(stem) + 2, Len(stem) + 16), now)
  /\ From(name, Len(stem) + 17) = ext

\* C1: unless the max_attempts numbered attempts were exhausted, the name
\* returned by resolve_filename_conflicts is not in the name set of the
\* directory read during the call.
C1_ReturnedNameFree ==
  (pc = "ret" /\ ~obs.exhausted) => ret \notin args.directory.names

\* the candidate and its first numbered form were taken, the second was free
C1_Witness ==
  /\ pc = "ret"
  /\ CandidateTaken
  /\ args.suffix_format = ParenFormat
  /\ obs.probes = 2
  /\ ~obs.exhausted
  /\ ret # args.base_filename

\* C8: resolve_filename_conflicts returns the candidate unchanged when the
\* directory does not exist or the candidate is not in its name set, and
\* otherwise stem + suffix_template(i) + extension for the smallest i in
\* 1..max_attempts whose form is not in the name set.
C8_FirstFreeForm ==
  pc = "ret" =>
    /\ ~CandidateTaken => ret = args.base_filename
    /\ CandidateTaken =>
         \A i \in 1..args.max_attempts :
           (Form(i) \notin args.directory.names
              /\ \A j \in 1..(i - 1) : Form(j) \in args.directory.names)
           => ret = Form(i)

\* "a.txt" with "a.txt" and "a(1).txt" taken gave "a(2).txt"
C8_Witness ==
  /\ pc = "ret"
  /\ args.base_filename = <<97, 46, 116, 120, 116>>
  /\ {<<97, 46, 116, 120, 116>>, <<97, 40, 49, 41, 46, 116, 120, 116>>}
        \subseteq args.directory.names
  /\ args.suffix_format = ParenFormat
  /\ ret = <<97, 40, 50, 41, 46, 116, 120, 116>>

FacAlphabet == {chC, chO, chN, chLowerC, chDot, chSpace, chNotLess}
FacNames == StringsUpTo(FacAlphabet, FacLen)

\* a small max_length and the default
FacCaps == {2, DefaultMaxLength}

CaseStyles == {"None", "lower", "upper", "title", "sentence"}

Configs ==
  [normalize_unicode : BOOLEAN, replace_spaces : BOOLEAN, max_length : FacCaps,
   case_style : CaseStyles, conflict_resolution : BOOLEAN,
   conflict_suffix_format : {ParenFormat}]

\* no prefix and no suffix, prefix "<", suffix "c"
Decorations ==
  {[prefix |-> <<>>, suffix |-> <<>>],
   [prefix |-> <<chLess>>, suffix |-> <<>>],
   [prefix |-> <<>>, suffix |-> <<chLowerC>>]}

\* the entry a directory of the model may hold: "c"
FacPool == {<<chLowerC>>}

\* no directory given, or a directory
OptionalDirectories(pool) ==
  {NoDirectory} \cup
  {[some |-> TRUE, exists |-> d.exists, names |-> d.names] : d \in Directories(pool)}

FacNows == {n \in Nows : n.year = 2024}

InitFac ==
  /\ pc = "call"
  /\ \E dec \in Decorations :
       args \in [self : Configs, filename : FacNames,
                 directory : OptionalDirectories(FacPool),
                 prefix : {dec.prefix}, suffix : {dec.suffix}, now : FacNows]
  /\ ret = <<>>
  /\ obs = NoObs
  /\ used_names = {}
  /\ disk = {}

CallSanitize ==
  /\ pc = "call"
  /\ pc' = "ret"
  /\ \E run \in {SanitizeRun(args.self, args.filename, args.directory, args.prefix,
                              args.suffix, args.now)} :
       /\ ret' = run.name
       /\ obs' = [probes |-> run.probes, exhausted |-> run.exhausted]
  /\ UNCHANGED <<args, used_names, disk>>

NextFac == CallSanitize

SpecFac == InitFac /\ [][NextFac]_vars

(***************************************************************************)
(* Properties of FilenameSanitizer.sanitize.                               *)
(***************************************************************************)
\* the Sanitizer invariants: not empty, not only dots and spaces, no longer
\* than max_length, no forbidden character, not a reserved device name
IsValidName(name, max_length) ==
  /\ ~IsBlank(name)
  /\ Len(name) <= max_length
  /\ Chars(name) \cap ForbiddenChars = {}
  /\ WithoutExtension(name) \notin reserved_names

\* the name is an entry of the directory given to the call
InDirectory(name) ==
  args.directory.some /\ args.directory.exists /\ name \in args.directory.names

\* C6: FilenameSanitizer.sanitize returns a name that satisfies the
\* Sanitizer invariants after prefix/suffix injection, case normalization
\* and conflict numbering, and that is absent from the directory when one
\* was given with conflict_resolution on.
C6_SanitizeValid ==
  pc = "ret" =>
    /\ IsValidName(ret, args.self.max_length)
    /\ args.self.conflict_resolution => ~InDirectory(ret)

IsLetter(c) == IsLower(c) \/ IsUpper(c)

\* s is written in the given case style
InCaseStyle(s, case_style) ==
  CASE case_style = "lower" -> \A i \in 1..Len(s) : ~IsUpper(s[i])
    [] case_style = "upper" -> \A i \in 1..Len(s) : ~IsLower(s[i])
    [] case_style = "title" ->
         \A i \in 1..Len(s) :
           IF i > 1 /\ IsLetter(s[i - 1]) THEN ~IsUpper(s[i]) ELSE ~IsLower(s[i])
    [] case_style = "sentence" ->
         \A i \in 1..Len(s) : IF i = 1 THEN ~IsLower(s[i]) ELSE ~IsUpper(s[i])
    [] OTHER -> TRUE

\* the name is one the enabled transformations of the configuration leave
\* alone
IsSettled(name, self) ==
  /\ chSlash \notin Chars(name)
  /\ name # <<>> => {name[1], name[Len(name)]} \cap {chDot, chSpace} = {}
  /\ Upper(WithoutExtension(name)) \notin reserved_names
  /\ self.normalize_unicode =>
       \A c \in Chars(name) : Decompose(c) = <<c>> /\ Combining(c) = 0
  /\ self.replace_spaces => chSpace \notin Chars(name)
  /\ self.case_style # "None" =>
       /\ InCaseStyle(WithoutExtension(name), self.case_style)
       /\ InCaseStyle(ExtensionOf(name), "lower")

\* the call is one of the round trip: no prefix, no suffix, a valid name
\* that is not in the directory
IsRoundTripCall ==
  /\ args.prefix = <<>>
  /\ args.suffix = <<>>
  /\ IsValidName(args.filename, args.self.max_length)
  /\ ~InDirectory(args.filename)

\* C10 as stated: sanitize with no prefix and no suffix returns a valid and
\* unique name unchanged.
C10_RoundTripAnyName ==
  (pc = "ret" /\ IsRoundTripCall) => ret = args.filename

\* C10: sanitize with no prefix and no suffix returns a valid and unique
\* name unchanged, provided the name has no path separator, no leading or
\* trailing dot or space, a stem that does not upper-case to a reserved
\* device name, and is already in the form the enabled options produce
\* (decomposed and free of combining marks under normalize_unicode, free of
\* spaces under replace_spaces, stem in case_style and extension in lower
\* case when a case_style is set).
C10_RoundTrip ==
  (pc = "ret" /\ IsRoundTripCall /\ IsSettled(args.filename, args.self))
    => ret = args.filename

\* "C C" came back unchanged under title case, checked against a directory
\* that holds another name
C10_Witness ==
  /\ pc = "ret"
  /\ IsRoundTripCall
  /\ IsSettled(args.filename, args.self)
  /\ args.filename = <<chC, chSpace, chC>>
  /\ args.self.case_style = "title"
  /\ args.self.conflict_resolution
  /\ args.directory.names = {<<chLowerC>>}
  /\ ret = <<chC, chSpace, chC>>

(***************************************************************************)
(* SpecBatch: one call of FilenameSanitizer.batch_sanitize.                *)
(***************************************************************************)
\* "c", "C", "c(1)", "c.c"
BatchNames ==
  {<<chLowerC>>, <<chC>>, <<chLowerC, chLParen, 49, chRParen>>,
   <<chLowerC, chDot, chLowerC>>}

BatchInputs == StringsUpTo(BatchNames, BatchLen)

BatchConfigs ==
  [normalize_unicode : {TRUE}, replace_spaces : {FALSE}, max_length : {DefaultMaxLength},
   case_style : {"None", "lower"}, conflict_resolution : BOOLEAN,
   conflict_suffix_format : SuffixFormats]

\* no prefix and no suffix, suffix "c"
BatchDecorations ==
  {[prefix |-> <<>>, suffix |-> <<>>], [prefix |-> <<>>, suffix |-> <<chLowerC>>]}

\* the entries a directory of the model may hold: "c", "c(1)"
BatchPool == {<<chLowerC>>, <<chLowerC, chLParen, 49, chRParen>>}

InitBatch ==
  /\ pc = "call"
  /\ \E dec \in BatchDecorations :
       args \in [self : BatchConfigs, filenames : BatchInputs,
                 directory : OptionalDirectories(BatchPool),
                 prefix : {dec.prefix}, suffix : {dec.suffix}, now : FacNows]
  /\ ret = <<>>
  /\ obs = NoObs
  /\ used_names = {}
  /\ disk = {}

\* one iteration of the for loop: ret holds the (original, final) pairs of
\* the inputs handled so far
BatchSanitizeNext ==
  /\ pc = "call"
  /\ Len(ret) < Len(args.filenames)
  /\ \E original \in {args.filenames[Len(ret) + 1]} :
       \E final \in {BatchFinal(args.self, original, args.directory, args.prefix,
                                args.suffix, args.now, used_names)} :
         /\ ret' = Append(ret, <<original, final>>)
         /\ used_names' = used_names \cup {final}
  /\ UNCHANGED <<pc, args, obs, disk>>

\* the loop is over: return results
BatchSanitizeReturn ==
  /\ pc = "call"
  /\ Len(ret) = Len(args.filenames)
  /\ pc' = "ret"
  /\ UNCHANGED <<args, ret, obs, used_names, disk>>

NextBatch == BatchSanitizeNext \/ BatchSanitizeReturn

SpecBatch == InitBatch /\ [][NextBatch]_vars

(***************************************************************************)
(* Properties of FilenameSanitizer.batch_sanitize.                         *)
(***************************************************************************)
\* the final name given to the i-th input
FinalName(i) == ret[i][2]

\* what the i-th input sanitizes to
SanitizedName(i) ==
  sanitize(args.self, args.filenames[i], args.directory, args.prefix, args.suffix,
           args.now)

\* final is s with a numbered suffix put before its extension
IsNumberedFormOf(final, s) ==
  \E k \in 1..BatchAttemptLimit :
    final = WithoutExtension(s) \o Format(args.self.conflict_suffix_format, k)
              \o ExtensionOf(s)

\* the i-th input is the first of the batch that sanitizes to its string
IsFirstToSanitizeTo(i) == \A h \in 1..(i - 1) : SanitizedName(h) # SanitizedName(i)

\* no earlier input of the batch received the string the i-th sanitizes to
IsFirstToReach(i) == \A h \in 1..(i - 1) : FinalName(h) # SanitizedName(i)

InitTrunc ==
  /\ pc = "call"
  /\ args \in [filename : SanNames, max_length : SanCaps, preserve_extension : BOOLEAN]
  /\ ret = <<>>
  /\ obs = NoObs
  /\ used_names = {}
  /\ disk = {}

\* ret holds the results of the calls made so far
CallTruncate ==
  /\ pc = "call"
  /\ pc' = "once"
  /\ ret' = <<truncate_filename(args.filename, args.max_length, args.preserve_extension)>>
  /\ UNCHANGED <<args, obs, used_names, disk>>

CallTruncateAgain ==
  /\ pc = "once"
  /\ pc' = "twice"
  /\ ret' = Append(ret, truncate_filename(ret[1], args.max_length, args.preserve_extension))
  /\ UNCHANGED <<args, obs, used_names, disk>>

NextTrunc == CallTruncate \/ CallTruncateAgain

SpecTrunc == InitTrunc /\ [][NextTrunc]_vars

chNewline == 10
\* a byte that is not valid UTF-8
chBadByte == 255

Returned(value) == [kind |-> "str", value |-> value, exc |-> "-"]
ReturnedNone == [kind |-> "None", value |-> <<>>, exc |-> "-"]
Raised(exc) == [kind |-> "raise", value |-> <<>>, exc |-> exc]

\* a handler that catches OSError only
IsOSError(exc) == exc = "OSError"

\* except Exception: the classes the model raises are all subclasses of it
IsException(exc) ==
  exc \in {"OSError", "LookupError", "re.error", "TypeError", "ValueError", "PdfReadError"}

\* try: body / except Exception: return None
TryExceptException(body) ==
  IF body.kind = "raise" /\ IsException(body.exc) THEN ReturnedNone ELSE body

\* try: body / except ValueError: return None
TryExceptValueError(body) ==
  IF body.kind = "raise" /\ body.exc = "ValueError" THEN ReturnedNone ELSE body

\* bytes.decode(encoding, errors='ignore'): UTF-8 drops the bytes it cannot
\* decode, ISO-8859-1 maps every byte to the character of the same number
Decode(bytes, encoding) ==
  IF encoding = "utf-8" THEN SelectSeq(bytes, LAMBDA b : b < 128) ELSE bytes

\* str.split(sep)
RECURSIVE SplitOn(_, _, _, _)
SplitOn(s, sep, i, cur) ==
  IF i > Len(s) THEN <<cur>>
  ELSE IF s[i] = sep THEN <<cur>> \o SplitOn(s, sep, i + 1, <<>>)
  ELSE SplitOn(s, sep, i + 1, Append(cur, s[i]))

\* the characters str.strip() removes
Whitespace == (9..13) \cup (28..32)

\* the loop over content.split('\n'): the first line that is not empty once
\* stripped, None when there is none
FirstNonEmptyLine(content) ==
  LET lines == SplitOn(content, chNewline, 1, <<>>)
      stripped == [k \in 1..Len(lines) |-> Strip(lines[k], Whitespace)]
      full == SelectSeq(stripped, LAMBDA line : line # <<>>)
  IN IF full = <<>> THEN ReturnedNone ELSE Returned(full[1])

\* regex_pattern as re.search sees it: whether it compiles, the character it
\* looks for, and its capture group: "none" for no group (c), "whole" for a
\* group around the match ((c)), "absent" for a group that takes no part in
\* the match ((x)?c)
NoPattern == [given |-> FALSE, valid |-> TRUE, literal |-> 0, group |-> "none"]

\* re.search(regex_pattern, content, re.MULTILINE) and the return of
\* match.group(1) if match.groups() else match.group(0)
Search(regex_pattern, content) ==
  IF ~regex_pattern.valid THEN Raised("re.error")
  ELSE IF regex_pattern.literal \notin {content[k] : k \in 1..Len(content)}
  THEN ReturnedNone
  ELSE IF regex_pattern.group = "absent" THEN ReturnedNone
  ELSE Returned(<<regex_pattern.literal>>)

\* what TextExtractor and PDFExtractor do with the content they have read
FromContent(content, options) ==
  IF options.regex_pattern.given
  THEN Search(options.regex_pattern, content)
  ELSE FirstNonEmptyLine(content)

\* TextExtractor.extract_content: the body of the try
TextTryBody(file, options, caps) ==
  IF ~file.readable THEN Raised("OSError")
  ELSE LET encoding == IF caps.chardet /\ file.detected # "None"
                       THEN file.detected ELSE "utf-8"
       IN IF encoding \notin {"utf-8", "ISO-8859-1"} THEN Raised("LookupError")
          ELSE FromContent(Decode(file.bytes, encoding), options)

TextExtractContent(file, options, caps) ==
  TryExceptException(TextTryBody(file, options, caps))

Min(a, b) == IF a < b THEN a ELSE b

\* PDFExtractor.extract_content: the body of the try; a page whose
\* extract_text() gives None cannot be concatenated
PdfTryBody(file, options, caps) ==
  IF ~file.readable THEN Raised("OSError")
  ELSE IF file.kind # "pdf" THEN Raised("PdfReadError")
  ELSE LET max_pages == Min(options.max_pages, Len(file.pages))
       IN IF \E i \in 1..max_pages : file.pages[i].none THEN Raised("TypeError")
          ELSE FromContent(Flatten([i \in 1..max_pages |->
                                      file.pages[i].text \o <<chNewline>>]), options)

PdfExtractContent(file, options, caps) ==
  IF ~caps.PdfReader THEN ReturnedNone
  ELSE TryExceptException(PdfTryBody(file, options, caps))

\* an EXIF tag: whether it is there, whether its value is a string, the value
NoTag == [present |-> FALSE, isstr |-> TRUE, text |-> <<>>]

\* the loop over the tags 36867 and 306: the value of the first that is there
DatetimeOriginal(exif) ==
  IF exif.t36867.present THEN exif.t36867
  ELSE IF exif.t306.present THEN exif.t306
  ELSE NoTag

IsDigits(s) == \A k \in 1..Len(s) : s[k] \in 48..57

\* the number a string of decimal digits denotes
RECURSIVE ToInt(_)
ToInt(s) ==
  IF s = <<>> THEN 0 ELSE 10 * ToInt(SubSeq(s, 1, Len(s) - 1)) + (s[Len(s)] - chZero)

\* datetime.strptime(text, "%Y:%m:%d %H:%M:%S") for a text with two-digit
\* fields and a day every month has
Strptime(text) ==
  IF /\ Len(text) = 19
     /\ text[5] = 58 /\ text[8] = 58 /\ text[11] = chSpace /\ text[14] = 58 /\ text[17] = 58
     /\ IsDigits([k \in 1..19 |-> IF k \in {5, 8, 11, 14, 17} THEN chZero ELSE text[k]])
     /\ ToInt(SubSeq(text, 1, 4)) >= 1
     /\ ToInt(SubSeq(text, 6, 7)) \in 1..12
     /\ ToInt(SubSeq(text, 9, 10)) \in 1..28
     /\ ToInt(SubSeq(text, 12, 13)) \in 0..23
     /\ ToInt(SubSeq(text, 15, 16)) \in 0..59
     /\ ToInt(SubSeq(text, 18, 19)) \in 0..59
  THEN [ok |-> TRUE,
        dt |-> [year |-> ToInt(SubSeq(text, 1, 4)), month |-> ToInt(SubSeq(text, 6, 7)),
                day |-> ToInt(SubSeq(text, 9, 10)), hour |-> ToInt(SubSeq(text, 12, 13)),
                minute |-> ToInt(SubSeq(text, 15, 16)),
                second |-> ToInt(SubSeq(text, 18, 19))]]
  ELSE [ok |-> FALSE,
        dt |-> [year |-> 0, month |-> 0, day |-> 0, hour |-> 0, minute |-> 0, second |-> 0]]

\* dt.strftime(date_format) for the formats '%Y%m%d_%H%M%S' and '%Y'
StrftimeAs(dt, date_format) ==
  IF date_format = "%Y" THEN ZeroPad(dt.year, 4) ELSE Strftime(dt)

\* lines 180-185: the inner try, which catches ValueError only
ParseAndFormat(datetime_original, options) ==
  TryExceptValueError(
    IF ~datetime_original.isstr THEN Raised("TypeError")
    ELSE IF ~Strptime(datetime_original.text).ok THEN Raised("ValueError")
    ELSE IF options.date_format = "nonstring" THEN Raised("TypeError")
    ELSE Returned(StrftimeAs(Strptime(datetime_original.text).dt, options.date_format)))

\* ImageExifExtractor.extract_content: the body of the outer try
ImageTryBody(file, options, caps) ==
  IF ~file.readable THEN Raised("OSError")
  ELSE IF file.kind # "image" THEN Raised("OSError")
  ELSE LET datetime_original == DatetimeOriginal(file.exif)
       IN IF datetime_original.text = <<>> THEN ReturnedNone
          ELSE ParseAndFormat(datetime_original, options)

ImageExtractContent(file, options, caps) ==
  IF ~caps.Image THEN ReturnedNone
  ELSE TryExceptException(ImageTryBody(file, options, caps))

(***************************************************************************)
(* can_extract, ContentExtractorManager                                    *)
(***************************************************************************)
\* ".txt" ".md" ".log" ".rst" ".csv"
TextExtensions ==
  {<<46, 116, 120, 116>>, <<46, 109, 100>>, <<46, 108, 111, 103>>, <<46, 114, 115, 116>>,
   <<46, 99, 115, 118>>}

\* ".pdf"
PdfExtension == <<46, 112, 100, 102>>

\* ".jpg" ".jpeg" ".tiff" ".tif"
ImageExtensions ==
  {<<46, 106, 112, 103>>, <<46, 106, 112, 101, 103>>, <<46, 116, 105, 102, 102>>,
   <<46, 116, 105, 102>>}

\* self.extractors
extractors == <<"TextExtractor", "PDFExtractor", "ImageExifExtractor">>

\* extractor.can_extract(file_path), file_path given by its name
can_extract(extractor, file_path, caps) ==
  CASE extractor = "TextExtractor" -> Lower(PathSuffix(file_path)) \in TextExtensions
    [] extractor = "PDFExtractor" ->
         Lower(PathSuffix(file_path)) = PdfExtension /\ caps.PdfReader
    [] extractor = "ImageExifExtractor" ->
         Lower(PathSuffix(file_path)) \in ImageExtensions /\ caps.Image

\* extractor.extract_content(file_path, **kwargs)
ExtractorExtractContent(extractor, file, options, caps) ==
  CASE extractor = "TextExtractor" -> TextExtractContent(file, options, caps)
    [] extractor = "PDFExtractor" -> PdfExtractContent(file, options, caps)
    [] extractor = "ImageExifExtractor" -> ImageExtractContent(file, options, caps)

\* the loop of get_extractor from the k-th extractor on: the extractor
\* returned ("None" for none) and the extractors whose can_extract was called
RECURSIVE GetExtractorFrom(_, _, _)
GetExtractorFrom(k, file_path, caps) ==
  IF k > Len(extractors) THEN [extractor |-> "None", consulted |-> <<>>]
  ELSE IF can_extract(extractors[k], file_path, caps)
  THEN [extractor |-> extractors[k], consulted |-> <<extractors[k]>>]
  ELSE LET rest == GetExtractorFrom(k + 1, file_path, caps)
       IN [extractor |-> rest.extractor, consulted |-> <<extractors[k]>> \o rest.consulted]

\* a loop that gives up when the first extractor does not match
GetExtractorFirstOnly(file_path, caps) ==
  IF can_extract(extractors[1], file_path, caps)
  THEN [extractor |-> extractors[1], consulted |-> <<extractors[1]>>]
  ELSE [extractor |-> "None", consulted |-> <<extractors[1]>>]

get_extractor(file_path, caps) == GetExtractorFrom(1, file_path, caps)

\* ContentExtractorManager.extract_content: the result, the extractors
\* consulted and the extractors whose extract_content was called
ManagerExtractContent(file, options, caps) ==
  LET found == get_extractor(file.name, caps)
  IN IF found.extractor # "None"
     THEN [result |-> ExtractorExtractContent(found.extractor, file, options, caps),
           consulted |-> found.consulted, delegated |-> <<found.extractor>>]
     ELSE [result |-> ReturnedNone, consulted |-> found.consulted, delegated |-> <<>>]

\* '.pdf' listed whether or not PdfReader is there
SupportedExtensionsStatic(caps) ==
  TextExtensions \cup {PdfExtension} \cup (IF caps.Image THEN ImageExtensions ELSE {})

get_supported_extensions(caps) ==
  TextExtensions \cup (IF caps.PdfReader THEN {PdfExtension} ELSE {})
    \cup (IF caps.Image THEN ImageExtensions ELSE {})

(***************************************************************************)
(* SpecExt: one call of an extractor or of the ContentExtractorManager.    *)
(***************************************************************************)
\* "c.txt" "c.TXT" "c.md" "c.pdf" "c.PDF" "c.jpg" "c.TiFF" "c.png" "c" ".txt"
ExtNames ==
  {<<99, 46, 116, 120, 116>>, <<99, 46, 84, 88, 84>>, <<99, 46, 109, 100>>,
   <<99, 46, 112, 100, 102>>, <<99, 46, 80, 68, 70>>, <<99, 46, 106, 112, 103>>,
   <<99, 46, 84, 105, 70, 70>>, <<99, 46, 112, 110, 103>>, <<99>>,
   <<46, 116, 120, 116>>}

NoExif == [t36867 |-> NoTag, t306 |-> NoTag]

\* a file that cannot be opened
UnreadableFile ==
  [readable |-> FALSE, kind |-> "text", detected |-> "None", bytes |-> <<>>,
   pages |-> <<>>, exif |-> NoExif]

\* text files: what chardet detects (nothing, ISO-8859-1, an encoding Python
\* does not know) and the bytes
TextFiles ==
  [readable : {TRUE}, kind : {"text"}, detected : {"None", "ISO-8859-1", "bogus"},
   bytes : StringsUpTo({chLowerC, chSpace, chNewline, chBadByte}, MaxBytes),
   pages : {<<>>}, exif : {NoExif}]

\* what extract_text() gives for a page: None, "", "c"
PageTexts ==
  {[none |-> TRUE, text |-> <<>>], [none |-> FALSE, text |-> <<>>],
   [none |-> FALSE, text |-> <<chLowerC>>]}

\* "%PDF"
PdfFiles ==
  [readable : {TRUE}, kind : {"pdf"}, detected : {"None"}, bytes : {<<37, 80, 68, 70>>},
   pages : StringsUpTo(PageTexts, MaxPages), exif : {NoExif}]

\* "2024:01:02 03:04:05", "2024-01-02 03:04:05", a value that is not a
\* string, ""
TagValues ==
  {NoTag,
   [present |-> TRUE, isstr |-> TRUE,
    text |-> <<50, 48, 50, 52, 58, 48, 49, 58, 48, 50, 32, 48, 51, 58, 48, 52, 58, 48, 53>>],
   [present |-> TRUE, isstr |-> TRUE,
    text |-> <<50, 48, 50, 52, 45, 48, 49, 45, 48, 50, 32, 48, 51, 58, 48, 52, 58, 48, 53>>],
   [present |-> TRUE, isstr |-> FALSE, text |-> <<50, 48, 50, 52>>],
   [present |-> TRUE, isstr |-> TRUE, text |-> <<>>]}

ImageFiles ==
  [readable : {TRUE}, kind : {"image"}, detected : {"None"}, bytes : {<<chBadByte>>},
   pages : {<<>>}, exif : [t36867 : TagValues, t306 : TagValues]]

Contents == {UnreadableFile} \cup TextFiles \cup PdfFiles \cup ImageFiles

\* a file: a name and a content
FileOf(name, content) ==
  [name |-> name, readable |-> content.readable, kind |-> content.kind,
   detected |-> content.detected, bytes |-> content.bytes, pages |-> content.pages,
   exif |-> content.exif]

\* "(" "c" "(c)" "(x)?c"
RegexPatterns ==
  {[given |-> TRUE, valid |-> FALSE, literal |-> 0, group |-> "none"],
   [given |-> TRUE, valid |-> TRUE, literal |-> chLowerC, group |-> "none"],
   [given |-> TRUE, valid |-> TRUE, literal |-> chLowerC, group |-> "whole"],
   [given |-> TRUE, valid |-> TRUE, literal |-> chLowerC, group |-> "absent"]}

\* the default of max_pages
DefaultMaxPages == 3

\* no option; a regex_pattern; max_pages=1; a date_format
OptionSets ==
  [regex_pattern : {NoPattern} \cup RegexPatterns, max_pages : {DefaultMaxPages},
   date_format : {"%Y%m%d_%H%M%S"}]
  \cup [regex_pattern : {NoPattern}, max_pages : {1}, date_format : {"%Y%m%d_%H%M%S"}]
  \cup [regex_pattern : {NoPattern}, max_pages : {DefaultMaxPages},
        date_format : {"%Y", "nonstring"}]

NoOptions ==
  [regex_pattern |-> NoPattern, max_pages |-> DefaultMaxPages,
   date_format |-> "%Y%m%d_%H%M%S"]

\* which of chardet, pypdf and PIL could be imported
Capabilities == [chardet : BOOLEAN, PdfReader : BOOLEAN, Image : BOOLEAN]

ExtNoObs == [consulted |-> <<>>, delegated |-> <<>>]

\* the call: an extractor's extract_content, or one of the manager's methods
InitExt ==
  /\ pc = "call"
  /\ \/ args \in [op : {"extract_content"},
                  on : {extractors[k] : k \in 1..Len(extractors)},
                  file : {FileOf(<<chLowerC>>, c) : c \in Contents},
                  options : OptionSets, caps : Capabilities]
     \/ args \in [op : {"extract_content"}, on : {"ContentExtractorManager"},
                  file : {FileOf(n, c) : n \in ExtNames, c \in Contents},
                  options : OptionSets, caps : Capabilities]
     \/ args \in [op : {"get_extractor"}, on : {"ContentExtractorManager"},
                  file : {FileOf(n, UnreadableFile) : n \in ExtNames},
                  options : {NoOptions}, caps : Capabilities]
     \/ args \in [op : {"get_supported_extensions"}, on : {"ContentExtractorManager"},
                  file : {FileOf(<<chLowerC>>, UnreadableFile)},
                  options : {NoOptions}, caps : Capabilities]
  /\ ret = <<>>
  /\ obs = ExtNoObs
  /\ used_names = {}
  /\ disk = {}

\* TextExtractor, PDFExtractor or ImageExifExtractor: extract_content
CallExtractorExtractContent ==
  /\ pc = "call"
  /\ args.op = "extract_content"
  /\ args.on # "ContentExtractorManager"
  /\ pc' = "ret"
  /\ ret' = ExtractorExtractContent(args.on, args.file, args.options, args.caps)
  /\ UNCHANGED <<args, obs, used_names, disk>>

CallManagerExtractContent ==
  /\ pc = "call"
  /\ args.op = "extract_content"
  /\ args.on = "ContentExtractorManager"
  /\ pc' = "ret"
  /\ \E run \in {ManagerExtractContent(args.file, args.options, args.caps)} :
       /\ ret' = run.result
       /\ obs' = [consulted |-> run.consulted, delegated |-> run.delegated]
  /\ UNCHANGED <<args, used_names, disk>>

CallGetExtractor ==
  /\ pc = "call"
  /\ args.op = "get_extractor"
  /\ pc' = "ret"
  /\ \E found \in {get_extractor(args.file.name, args.caps)} :
       /\ ret' = found.extractor
       /\ obs' = [consulted |-> found.consulted, delegated |-> <<>>]
  /\ UNCHANGED <<args, used_names, disk>>

CallGetSupportedExtensions ==
  /\ pc = "call"
  /\ args.op = "get_supported_extensions"
  /\ pc' = "ret"
  /\ ret' = get_supported_extensions(args.caps)
  /\ UNCHANGED <<args, obs, used_names, disk>>

NextExt ==
  \/ CallExtractorExtractContent
  \/ CallManagerExtractContent
  \/ CallGetExtractor
  \/ CallGetSupportedExtensions

SpecExt == InitExt /\ [][NextExt]_vars

(***************************************************************************)
(* Properties of the extractors and of the ContentExtractorManager.        *)
(***************************************************************************)
\* C12: every extract_content, of the three extractors and of the manager,
\* fails soft: for every file and every option set (an unreadable file,
\* undecodable bytes, an invalid regex pattern, a page with no text,
\* malformed or non-string metadata, an absent decoding capability) it
\* returns a string or None and no exception leaves the call.
C12_FailsSoft ==
  (pc = "ret" /\ args.op = "extract_content") => ret.kind \in {"str", "None"}

\* DateTimeOriginal is not a string: strptime raises TypeError, which the
\* inner handler for ValueError lets through, and the call returned None
C12_Witness ==
  /\ pc = "ret"
  /\ args.op = "extract_content"
  /\ args.on = "ImageExifExtractor"
  /\ args.caps.Image
  /\ args.file.readable
  /\ args.file.kind = "image"
  /\ args.file.exif.t36867.present
  /\ ~args.file.exif.t36867.isstr
  /\ ret.kind = "None"

\* the fixed order of the registry
FixedOrder == <<"TextExtractor", "PDFExtractor", "ImageExifExtractor">>

\* the extractors that can handle the file of the call
Matching == {k \in 1..3 : can_extract(FixedOrder[k], args.file.name, args.caps)}

\* the position of the first of them
FirstMatching == CHOOSE k \in Matching : \A h \in Matching : k <= h

\* C13: get_extractor returns the first extractor in the order Text, PDF,
\* Image whose can_extract is true, and none when none matches;
\* the manager's extract_content returns what that extractor's
\* extract_content returns for the same file and options, and None when none
\* matches; no extractor after the first match is consulted or called.
C13_FirstMatchWins ==
  (pc = "ret" /\ args.on = "ContentExtractorManager"
     /\ args.op \in {"get_extractor", "extract_content"}) =>
    IF Matching = {}
    THEN /\ obs.consulted = FixedOrder
         /\ obs.delegated = <<>>
         /\ args.op = "get_extractor" => ret = "None"
         /\ args.op = "extract_content" => ret = ReturnedNone
    ELSE /\ obs.consulted = SubSeq(FixedOrder, 1, FirstMatching)
         /\ args.op = "get_extractor" =>
              ret = FixedOrder[FirstMatching] /\ obs.delegated = <<>>
         /\ args.op = "extract_content" =>
              /\ obs.delegated = <<FixedOrder[FirstMatching]>>
              /\ ret = ExtractorExtractContent(FixedOrder[FirstMatching], args.file,
                                               args.options, args.caps)

\* "c.PDF" with one page "c": the text extractor was consulted and passed
\* over, the PDF extractor gave "c", the image extractor was not consulted
C13_Witness ==
  /\ pc = "ret"
  /\ args.on = "ContentExtractorManager"
  /\ args.op = "extract_content"
  /\ args.file.name = <<99, 46, 80, 68, 70>>
  /\ args.caps.PdfReader
  /\ args.caps.Image
  /\ obs.consulted = <<"TextExtractor", "PDFExtractor">>
  /\ obs.delegated = <<"PDFExtractor">>
  /\ ret = Returned(<<chLowerC>>)

\* the extensions tried: the ten of the extractors, ".png", ".doc", none,
\* and ".TXT" ".Pdf" ".JPG" ".TiFF"
ProbedExtensions ==
  {<<46, 116, 120, 116>>, <<46, 109, 100>>, <<46, 108, 111, 103>>, <<46, 114, 115, 116>>,
   <<46, 99, 115, 118>>, <<46, 112, 100, 102>>, <<46, 106, 112, 103>>,
   <<46, 106, 112, 101, 103>>, <<46, 116, 105, 102, 102>>, <<46, 116, 105, 102>>,
   <<46, 112, 110, 103>>, <<46, 100, 111, 99>>, <<>>,
   <<46, 84, 88, 84>>, <<46, 80, 100, 102>>, <<46, 74, 80, 71>>, <<46, 84, 105, 70, 70>>}

\* get_extractor finds an extractor for a file with the extension e
HasExtractor(e) == get_extractor(<<chLowerC>> \o e, args.caps).extractor # "None"

\* C14: for every combination of available and absent capabilities, an
\* extension is in get_supported_extensions() if and only if get_extractor
\* returns an extractor for a file with that extension, compared without
\* regard to case; an extension whose capability is absent is not listed.
C14_SupportedIffExtractor ==
  (pc = "ret" /\ args.op = "get_supported_extensions") =>
    /\ ret \subseteq {Lower(e) : e \in ProbedExtensions}
    /\ \A e \in ProbedExtensions : Lower(e) \in ret <=> HasExtractor(e)
    /\ ~args.caps.PdfReader => <<46, 112, 100, 102>> \notin ret
    /\ ~args.caps.Image =>
         ret \cap {<<46, 106, 112, 103>>, <<46, 106, 112, 101, 103>>,
                   <<46, 116, 105, 102, 102>>, <<46, 116, 105, 102>>} = {}

\* pypdf absent and PIL present: ".jpg" is listed and ".pdf" is not
C14_Witness ==
  /\ pc = "ret"
  /\ args.op = "get_supported_extensions"
  /\ ~args.caps.PdfReader
  /\ args.caps.Image
  /\ <<46, 106, 112, 103>> \in ret
  /\ <<46, 112, 100, 102>> \notin ret
  /\ ~HasExtractor(<<46, 80, 100, 102>>)

\* no call of sanitize made for the batch took the timestamp fallback
NoResolverExhaustion ==
  \A i \in 1..Len(args.filenames) :
    ~SanitizeRun(args.self, args.filenames[i], args.directory, args.prefix, args.suffix,
                 args.now).exhausted

\* C16: when batch_sanitize is given a target directory and
\* conflict_resolution is on, every final name it returns is absent from the
\* name set of that directory, the names renumbered by the in-memory second
\* pass included (no resolver exhaustion occurring).
C16_FinalNamesNotInDirectory ==
  (pc = "ret" /\ args.directory.some /\ args.directory.exists
     /\ args.self.conflict_resolution /\ NoResolverExhaustion) =>
    \A i \in 1..Len(ret) : FinalName(i) \notin args.directory.names

(***************************************************************************)
(* SpecBatchLong: one call of batch_sanitize on a list of identical names  *)
(* that is longer than the in-batch renumbering can number.                *)
(***************************************************************************)
\* the lengths of the list: the longest one the renumbering can serve (one
\* input keeps the name, BatchAttemptLimit get a number) and one more
LongBatchLens == {BatchAttemptLimit + 1, BatchAttemptLimit + 2}

\* FilenameSanitizer()
DefaultConfig ==
  [normalize_unicode |-> TRUE, replace_spaces |-> FALSE, max_length |-> DefaultMaxLength,
   case_style |-> "None", conflict_resolution |-> TRUE,
   conflict_suffix_format |-> ParenFormat]

\* "c", "c.c"
LongBatchNames == {<<chLowerC>>, <<chLowerC, chDot, chLowerC>>}

InitBatchLong ==
  /\ pc = "call"
  /\ args \in [self : {DefaultConfig},
               filenames : {[i \in 1..n |-> name] : n \in LongBatchLens,
                                                    name \in LongBatchNames},
               directory : {NoDirectory}, prefix : {<<>>}, suffix : {<<>>}, now : FacNows]
  /\ ret = <<>>
  /\ obs = NoObs
  /\ used_names = {}
  /\ disk = {}

SpecBatchLong == InitBatchLong /\ [][NextBatch]_vars

\* C15: the final names returned by one batch_sanitize call are pairwise
\* distinct, whatever the length of the list (more identical inputs than the
\* in-batch attempt limit of 1000 included): the final name chosen for an
\* input is not among the final names chosen before it.
C15_FinalNamesDistinct ==
  \A i \in 1..(Len(ret) - 1) : FinalName(i) # FinalName(Len(ret))

(***************************************************************************)
(* RenamerApp.rename_files (src/renamer_app.py).                           *)
(*                                                                         *)
(* The directory of the app holds files and no subdirectory; disk is the   *)
(* set of their names.  A destination outside the directory (an absolute   *)
(* path) takes the file out of it.                                         *)
(***************************************************************************)
\* os.path.splitext(filename) for a name without separators: the extension
\* starts at the last dot unless only dots come before it
SplitExt(filename) ==
  LET i == RFind(filename, chDot)
  IN IF i > 1 /\ \E k \in 1..(i - 1) : filename[k] # chDot
     THEN [name |-> SubSeq(filename, 1, i - 1), ext |-> From(filename, i)]
     ELSE [name |-> filename, ext |-> <<>>]

\* str.replace(old, new) for a non-empty old
RECURSIVE Replace(_, _, _)
Replace(s, old, new) ==
  IF Len(s) < Len(old) THEN s
  ELSE IF SubSeq(s, 1, Len(old)) = old THEN new \o Replace(From(s, Len(old) + 1), old, new)
  ELSE <<Head(s)>> \o Replace(Tail(s), old, new)

\* f"{n:03d}"
Pad3(n) == IF n < 1000 THEN ZeroPad(n, 3) ELSE Str(n)

\* a < b in the order of sorted(): code point by code point
RECURSIVE LexLess(_, _)
LexLess(a, b) ==
  IF b = <<>> THEN FALSE
  ELSE IF a = <<>> THEN TRUE
  ELSE IF Head(a) # Head(b) THEN Head(a) < Head(b)
  ELSE LexLess(Tail(a), Tail(b))

\* sorted(names)
RECURSIVE Sorted(_)
Sorted(names) ==
  IF names = {} THEN <<>>
  ELSE LET first == CHOOSE a \in names : \A b \in names \ {a} : LexLess(a, b)
       IN <<first>> \o Sorted(names \ {first})

\* the sanitizer rename_files builds from the options of the UI
AppSanitizer(ui) ==
  [normalize_unicode |-> TRUE, replace_spaces |-> ui.replace_spaces,
   max_length |-> DefaultMaxLength, case_style |-> ui.case_style,
   conflict_resolution |-> TRUE, conflict_suffix_format |-> ParenFormat]

\* the three libraries are installed
AllCapabilities == [chardet |-> TRUE, PdfReader |-> TRUE, Image |-> TRUE]

\* lines 240-253: the text extracted from the file, "" when there is none
ExtractedText(ui, filename) ==
  LET result == ManagerExtractContent(FileOf(filename, ui.contents[filename]),
                                      NoOptions, AllCapabilities).result
  IN IF result.kind = "str" THEN result.value ELSE <<>>

\* lines 219-253: the name proposed for the i-th selected file, "" when the
\* option proposes none
ProposedNewName(ui, i, filename) ==
  LET name == SplitExt(filename).name
      ext == SplitExt(filename).ext
  IN CASE ui.option = "sequential" -> ui.base_name \o Pad3(i) \o ext
       [] ui.option = "add_text" -> ui.prefix \o name \o ui.suffix \o ext
       [] ui.option = "replace" ->
            IF ui.find_text # <<>>
            THEN Replace(name, ui.find_text, ui.replace_text) \o ext
            ELSE filename
       [] ui.option = "folder_name_seq" ->
            ui.folder_name \o <<chUnderscore>> \o Pad3(i) \o ext
       [] ui.option = "extract_content" ->
            IF ExtractedText(ui, filename) # <<>>
            THEN ExtractedText(ui, filename) \o ext
            ELSE <<>>

\* line 261: sanitizer.sanitize(proposed_new_name, directory=Path(self.directory))
FinalNewName(ui, proposed_new_name, names, now) ==
  sanitize(AppSanitizer(ui), proposed_new_name,
           [some |-> TRUE, exists |-> TRUE, names |-> names], <<>>, <<>>, now)

\* where os.rename(old_path, os.path.join(self.directory, final_new_name))
\* leads: "inside" to a name of the directory, "outside" for an absolute
\* path, "nowhere" for a path through a subdirectory, which there is not
Destination(final_new_name) ==
  IF final_new_name[1] = chSlash THEN "outside"
  ELSE IF chSlash \in {final_new_name[k] : k \in 1..Len(final_new_name)} THEN "nowhere"
  ELSE "inside"

\* the counters of rename_files and the number of files handled
AppStart == [renamed_count |-> 0, errors |-> <<>>, handled |-> 0]

\* one iteration of the for loop of rename_files; obs holds the calls of
\* os.rename made so far
RenameNext ==
  /\ pc = "call"
  /\ ret.handled < Len(args.selected_files)
  /\ \E i \in {ret.handled + 1} :
     \E filename \in {args.selected_files[i]} :
     \E proposed_new_name \in {ProposedNewName(args, i, filename)} :
       IF args.option = "extract_content" /\ proposed_new_name = <<>>
       THEN /\ ret' = [ret EXCEPT !.handled = i, !.errors = Append(@, filename)]
            /\ UNCHANGED <<obs, disk>>
       ELSE IF proposed_new_name = <<>> \/ proposed_new_name = filename
       THEN /\ ret' = [ret EXCEPT !.handled = i]
            /\ UNCHANGED <<obs, disk>>
       ELSE \E final_new_name \in {FinalNewName(args, proposed_new_name, disk, args.now)} :
         IF final_new_name = filename
         THEN /\ ret' = [ret EXCEPT !.handled = i, !.errors = Append(@, filename)]
              /\ UNCHANGED <<obs, disk>>
         ELSE \E permitted \in BOOLEAN :
              \E to \in {Destination(final_new_name)} :
              \E done \in {(filename \in disk)
                             /\ (to = "inside" \/ (to = "outside" /\ permitted))} :
                /\ to \in {"inside", "nowhere"} => permitted
                /\ obs' = Append(obs, [src |-> filename, dst |-> final_new_name, to |-> to,
                                       existed |-> to = "inside" /\ final_new_name \in disk,
                                       done |-> done])
                /\ disk' = IF ~done THEN disk
                           ELSE IF to = "inside"
                           THEN (disk \ {filename}) \cup {final_new_name}
                           ELSE disk \ {filename}
                /\ ret' = IF done
                          THEN [ret EXCEPT !.handled = i, !.renamed_count = @ + 1]
                          ELSE [ret EXCEPT !.handled = i, !.errors = Append(@, filename)]
  /\ UNCHANGED <<pc, args, used_names>>

\* lines 274-283: the loop is over, the outcome is shown
RenameFilesReturn ==
  /\ pc = "call"
  /\ ret.handled = Len(args.selected_files)
  /\ pc' = "ret"
  /\ UNCHANGED <<args, ret, obs, used_names, disk>>

NextApp == RenameNext \/ RenameFilesReturn

(***************************************************************************)
(* SpecApp: one run of rename_files on a selection of the files of the     *)
(* directory.                                                              *)
(***************************************************************************)
\* the files the directory may hold: "C.txt" "c(1).txt" "c.txt" "c001.txt"
AppPool ==
  {<<67, 46, 116, 120, 116>>, <<99, 40, 49, 41, 46, 116, 120, 116>>,
   <<99, 46, 116, 120, 116>>, <<99, 48, 48, 49, 46, 116, 120, 116>>}

\* what a file holds: nothing readable, the line "c", the line "/c"
AppContents ==
  {UnreadableFile,
   [readable |-> TRUE, kind |-> "text", detected |-> "None", bytes |-> <<chLowerC>>,
    pages |-> <<>>, exif |-> NoExif],
   [readable |-> TRUE, kind |-> "text", detected |-> "None",
    bytes |-> <<chSlash, chLowerC>>, pages |-> <<>>, exif |-> NoExif]}

\* the entries of the option chosen; the entries of the other options are
\* not read
NoEntries ==
  [option |-> "", base_name |-> <<>>, prefix |-> <<>>, suffix |-> <<>>,
   find_text |-> <<>>, replace_text |-> <<>>, folder_name |-> <<>>,
   contents |-> [f \in AppPool |-> UnreadableFile]]

\* base names "c" and "/c"; prefixes "" and "/", suffixes "" and "(1)";
\* nothing to find, "C" by "c", "c" by "/"; the folder "c"; any contents
Entries ==
  {[NoEntries EXCEPT !.option = "sequential", !.base_name = b] :
     b \in {<<chLowerC>>, <<chSlash, chLowerC>>}}
  \cup {[NoEntries EXCEPT !.option = "add_text", !.prefix = p, !.suffix = x] :
          p \in {<<>>, <<chSlash>>}, x \in {<<>>, <<chLParen, 49, chRParen>>}}
  \cup {[NoEntries EXCEPT !.option = "replace", !.find_text = fr[1], !.replace_text = fr[2]] :
          fr \in {<<(<<>>), (<<chLowerC>>)>>, <<(<<chC>>), (<<chLowerC>>)>>,
                  <<(<<chLowerC>>), (<<chSlash>>)>>}}
  \cup {[NoEntries EXCEPT !.option = "folder_name_seq", !.folder_name = <<chLowerC>>]}
  \cup {[NoEntries EXCEPT !.option = "extract_content", !.contents = c] :
          c \in [AppPool -> AppContents]}

\* the files of the directory and the files selected in the list, which
\* shows them sorted
Selections ==
  {[files |-> files, selected_files |-> Sorted(chosen)] :
     files \in SUBSET AppPool, chosen \in SUBSET AppPool}

InitApp ==
  /\ pc = "call"
  /\ \E entries \in Entries :
     \E sel \in {x \in Selections : x.selected_files # <<>>
                                    /\ \A k \in 1..Len(x.selected_files) :
                                         x.selected_files[k] \in x.files} :
       args \in [option : {entries.option}, base_name : {entries.base_name},
                 prefix : {entries.prefix}, suffix : {entries.suffix},
                 find_text : {entries.find_text}, replace_text : {entries.replace_text},
                 folder_name : {entries.folder_name}, contents : {entries.contents},
                 case_style : {"None", "lower"}, replace_spaces : BOOLEAN,
                 files : {sel.files}, selected_files : {sel.selected_files},
                 now : FacNows]
  /\ ret = AppStart
  /\ obs = <<>>
  /\ used_names = {}
  /\ disk = args.files

SpecApp == InitApp /\ [][NextApp]_vars

(***************************************************************************)
(* Properties of rename_files.                                             *)
(***************************************************************************)
\* C17: in rename_files, with no other actor changing the directory and no
\* resolver exhaustion, for every selection and every rename option: each
\* os.rename is called with a destination that does not exist in the
\* directory at that moment, so that no file is overwritten and the
\* directory holds as many files after the run as before; a failure on one
\* file does not stop the later files and does not undo the earlier renames.
C17_RenamesKeepEveryFile ==
  /\ \A k \in 1..Len(obs) : ~obs[k].existed
  /\ pc = "ret" =>
       /\ Cardinality(disk) = Cardinality(args.files)
       /\ ret.handled = Len(args.selected_files)
       /\ \A k \in 1..Len(obs) : (obs[k].done /\ obs[k].to = "inside") => obs[k].dst \in disk

====
